---- MODULE Spec2Model ----
(***************************************************************************)
(* Model of the GPA calculator of src/script.js: the course table (rows    *)
(* of the tbody), the baseline inputs, the result card, the toasts, the    *)
(* state object, the pending timeout of clearRows and the animationend     *)
(* listeners of deleteRow, with one action per event handler.              *)
(*                                                                         *)
(* Numbers are exact rationals [n, d] (d > 0, reduced); [0, 0] is NaN.     *)
(* JavaScript computes in IEEE doubles: the model checks the arithmetic    *)
(* the code writes down, not its rounding.                                 *)
(***************************************************************************)
EXTENDS Integers, Sequences, FiniteSets, TLC

----------------------------------------------------------------------------
(* Bounds of the model *)

\* rows of the table in the interactive specification
MaxRows == 2
\* rows of the table in the calculation specification
MaxEntries == 2

----------------------------------------------------------------------------
(* Numbers *)

Abs(x) == IF x < 0 THEN -x ELSE x

RECURSIVE GCD(_, _)
GCD(a, b) == IF b = 0 THEN a ELSE GCD(b, a % b)

\* n/d with both divided by g
Reduced(n, d, g) == [n |-> n \div g, d |-> d \div g]

\* the number n/d, reduced, sign in the numerator
R(n, d) ==
    IF d < 0 THEN Reduced(-n, -d, GCD(Abs(n), Abs(d)))
    ELSE Reduced(n, d, GCD(Abs(n), Abs(d)))

NaN == [n |-> 0, d |-> 0]
Zero == [n |-> 0, d |-> 1]

isNaN(x) == x.d = 0

RAdd(x, y) == IF isNaN(x) \/ isNaN(y) THEN NaN ELSE R(x.n * y.d + y.n * x.d, x.d * y.d)
RSub(x, y) == IF isNaN(x) \/ isNaN(y) THEN NaN ELSE R(x.n * y.d - y.n * x.d, x.d * y.d)
RMul(x, y) == IF isNaN(x) \/ isNaN(y) THEN NaN ELSE R(x.n * y.n, x.d * y.d)
\* x / y; 0/0 is NaN (the code never divides a non-zero number by zero)
RDiv(x, y) == IF isNaN(x) \/ isNaN(y) \/ y.n = 0 THEN NaN ELSE R(x.n * y.d, x.d * y.n)
\* comparisons with NaN are false
RLt(x, y) == ~isNaN(x) /\ ~isNaN(y) /\ x.n * y.d < y.n * x.d
RLe(x, y) == ~isNaN(x) /\ ~isNaN(y) /\ x.n * y.d <= y.n * x.d
RGt(x, y) == RLt(y, x)

\* x || 0 : NaN and 0 are falsy
OrZero(x) == IF isNaN(x) \/ x.n = 0 THEN Zero ELSE x

----------------------------------------------------------------------------
(* Grade scale and the text of the form controls *)

GRADE_MAP ==
    [g \in {"A+", "A", "A-", "B+", "B", "B-", "C+", "C", "C-", "D+", "D", "F"} |->
        CASE g = "A+" -> [n |-> 4, d |-> 1]
          [] g = "A"  -> [n |-> 4, d |-> 1]
          [] g = "A-" -> [n |-> 367, d |-> 100]
          [] g = "B+" -> [n |-> 333, d |-> 100]
          [] g = "B"  -> [n |-> 3, d |-> 1]
          [] g = "B-" -> [n |-> 267, d |-> 100]
          [] g = "C+" -> [n |-> 233, d |-> 100]
          [] g = "C"  -> [n |-> 2, d |-> 1]
          [] g = "C-" -> [n |-> 167, d |-> 100]
          [] g = "D+" -> [n |-> 133, d |-> 100]
          [] g = "D"  -> [n |-> 1, d |-> 1]
          [] g = "F"  -> [n |-> 0, d |-> 1]]

\* `${points}` : the option value written for a grade's points
NumberToString(x) ==
    CASE x = R(4, 1)     -> "4"
      [] x = R(367, 100) -> "3.67"
      [] x = R(333, 100) -> "3.33"
      [] x = R(3, 1)     -> "3"
      [] x = R(267, 100) -> "2.67"
      [] x = R(233, 100) -> "2.33"
      [] x = R(2, 1)     -> "2"
      [] x = R(167, 100) -> "1.67"
      [] x = R(133, 100) -> "1.33"
      [] x = R(1, 1)     -> "1"
      [] x = R(0, 1)     -> "0"

\* value of the <option> of grade g
getGradeOptions(g) == NumberToString(GRADE_MAP[g])

\* parseFloat over the texts the controls of this model can hold
parseFloat(s) ==
    CASE s = ""     -> NaN
      [] s = "-1"   -> [n |-> -1, d |-> 1]
      [] s = "0"    -> [n |-> 0, d |-> 1]
      [] s = "0.5"  -> [n |-> 1, d |-> 2]
      [] s = "1"    -> [n |-> 1, d |-> 1]
      [] s = "1.33" -> [n |-> 133, d |-> 100]
      [] s = "1.67" -> [n |-> 167, d |-> 100]
      [] s = "2"    -> [n |-> 2, d |-> 1]
      [] s = "2.33" -> [n |-> 233, d |-> 100]
      [] s = "2.5"  -> [n |-> 5, d |-> 2]
      [] s = "2.67" -> [n |-> 267, d |-> 100]
      [] s = "3"    -> [n |-> 3, d |-> 1]
      [] s = "3.0"  -> [n |-> 3, d |-> 1]
      [] s = "3.33" -> [n |-> 333, d |-> 100]
      [] s = "3.5"  -> [n |-> 7, d |-> 2]
      [] s = "3.67" -> [n |-> 367, d |-> 100]
      [] s = "4"    -> [n |-> 4, d |-> 1]
      [] s = "4.5"  -> [n |-> 9, d |-> 2]
      [] s = "5"    -> [n |-> 5, d |-> 1]
      [] s = "30"   -> [n |-> 30, d |-> 1]
      [] s = "60"   -> [n |-> 60, d |-> 1]

\* parseInt over the same texts: the integer the text starts with
parseInt(s) ==
    LET x == parseFloat(s)
    IN  IF isNaN(x) THEN NaN
        ELSE IF x.n >= 0 THEN R(x.n \div x.d, 1) ELSE R(-((-x.n) \div x.d), 1)

\* texts typed into a row's credits input (type=number: never non-numeric)
CreditTexts == {"", "0", "0.5", "3", "5"}
\* grades picked in a row's selects
Grades == {"A", "C"}
\* option values of the selects, "" being the placeholder option
GradeValues == {""} \cup {getGradeOptions(g) : g \in Grades}
\* option values picked in the previous-grade select
OldGradeValues == {"", getGradeOptions("C")}

----------------------------------------------------------------------------
(* State *)

VARIABLES
    rows,            \* the <tr> of the tbody, in document order
    currentGPA,      \* text of the Current CGPA input
    currentCredits,  \* text of the Credits Earned input
    state,           \* the state object: rowCount, isAnimating, prefersReducedMotion
    clearTimer,      \* TRUE while the final timeout of clearRows is pending
    output,          \* the result card: its show class and the texts of sgpa, cgpa, totalCredits
    toast,           \* the toast shown by the handler that ran last, "" if it showed none
    calc             \* the locals of calculate when it returned, if calculate ran last

vars == <<rows, currentGPA, currentCredits, state, clearTimer, output, toast, calc>>

\* a row as addRow builds it: empty controls, no error-row, no row-exit
\* class; edit is TRUE while its credits input has the focus and holds text
\* typed since it got it ('change' and 'blur' are still to come)
NewRow == [cr |-> "", gr |-> "", rp |-> FALSE, old |-> "", err |-> FALSE, exit |-> FALSE,
           edit |-> FALSE]

\* the result card before any calculation: hidden, nothing written
NoOutput == [show |-> FALSE, sgpa |-> <<>>, cgpa |-> <<>>, totalCredits |-> <<>>, scale |-> <<>>]

\* no call of calculate has just returned
NoCall == [ret |-> "none",
           overallQualityPoints |-> NaN, overallCredits |-> NaN,
           semesterQualityPoints |-> NaN, semesterCredits |-> NaN,
           hasErrors |-> FALSE, hasValidCourses |-> FALSE,
           semesterGPA |-> NaN, cumulativeGPA |-> NaN, trace |-> <<>>]

----------------------------------------------------------------------------
(* calculate *)

\* the locals of calculate before the loop over the rows
startOfLoop(gpa, credits) ==
    [NoCall EXCEPT !.overallQualityPoints = RMul(gpa, credits),
                   !.overallCredits = credits,
                   !.semesterQualityPoints = Zero,
                   !.semesterCredits = Zero]

\* isEmptyRow with the skip tied to the repeat checkbox being clear
isEmptyRow_unlessRepeat(row) == row.cr = "" /\ row.gr = "" /\ ~row.rp

\* "Skip empty rows"
isEmptyRow(row) == row.cr = "" /\ row.gr = ""

\* "Check for incomplete rows"
isIncompleteRow(row) == row.cr = "" \/ row.gr = ""

\* "Validate credits"
creditsInvalid(credits) == isNaN(credits) \/ RLe(credits, Zero) \/ RGt(credits, R(4, 1))

\* addToSemester with the grade points not weighted by the credits
addToSemester_unweighted(acc, credits, grade) ==
    [acc EXCEPT !.hasValidCourses = TRUE,
                !.semesterQualityPoints = RAdd(@, grade),
                !.semesterCredits = RAdd(@, credits)]

\* hasValidCourses = true and the two semester sums
addToSemester(acc, credits, grade) ==
    [acc EXCEPT !.hasValidCourses = TRUE,
                !.semesterQualityPoints = RAdd(@, RMul(credits, grade)),
                !.semesterCredits = RAdd(@, credits)]

\* replaceGrade with the old grade's quality points added instead of removed
replaceGrade_oldAdded(acc, credits, grade, oldGrade) ==
    [acc EXCEPT !.overallQualityPoints =
                    RAdd(RAdd(@, RMul(credits, oldGrade)), RMul(credits, grade))]

\* replaceGrade with the repeated course's credits counted again
replaceGrade_creditsAdded(acc, credits, grade, oldGrade) ==
    [acc EXCEPT !.overallQualityPoints =
                    RAdd(RSub(@, RMul(credits, oldGrade)), RMul(credits, grade)),
                !.overallCredits = RAdd(@, credits)]

\* a repeated course: the old grade's quality points out, the new grade's in
replaceGrade(acc, credits, grade, oldGrade) ==
    [acc EXCEPT !.overallQualityPoints =
                    RAdd(RSub(@, RMul(credits, oldGrade)), RMul(credits, grade))]

\* addCourse with the credits left out of overallCredits
addCourse_creditsDropped(acc, credits, grade) ==
    [acc EXCEPT !.overallQualityPoints = RAdd(@, RMul(credits, grade))]

\* a new course: quality points and credits added
addCourse(acc, credits, grade) ==
    [acc EXCEPT !.overallQualityPoints = RAdd(@, RMul(credits, grade)),
                !.overallCredits = RAdd(@, credits)]

\* forEachRow with hasErrors not set for a repeat without previous grade
forEachRow_missingOldNotCounted(acc, row) ==
    LET credits == parseFloat(row.cr)
        grade == parseFloat(row.gr)
        oldGrade == parseFloat(row.old)
        sem == addToSemester(acc, credits, grade)
    IN  IF isEmptyRow(row)
        THEN [acc |-> acc, flag |-> FALSE]
        ELSE IF isIncompleteRow(row)
        THEN [acc |-> [acc EXCEPT !.hasErrors = TRUE], flag |-> TRUE]
        ELSE IF creditsInvalid(credits)
        THEN [acc |-> [acc EXCEPT !.hasErrors = TRUE], flag |-> TRUE]
        ELSE IF row.rp
        THEN IF row.old = ""
             THEN [acc |-> sem, flag |-> TRUE]
             ELSE [acc |-> replaceGrade(sem, credits, grade, oldGrade), flag |-> FALSE]
        ELSE [acc |-> addCourse(sem, credits, grade), flag |-> FALSE]

\* the body of the rows.forEach callback of calculate: the locals after the
\* row, and whether the row got the error-row class
forEachRow(acc, row) ==
    LET credits == parseFloat(row.cr)
        grade == parseFloat(row.gr)
        oldGrade == parseFloat(row.old)
        sem == addToSemester(acc, credits, grade)
    IN  IF isEmptyRow(row)
        THEN [acc |-> acc, flag |-> FALSE]
        ELSE IF isIncompleteRow(row)
        THEN [acc |-> [acc EXCEPT !.hasErrors = TRUE], flag |-> TRUE]
        ELSE IF creditsInvalid(credits)
        THEN [acc |-> [acc EXCEPT !.hasErrors = TRUE], flag |-> TRUE]
        ELSE IF row.rp
        THEN IF row.old = ""
             THEN [acc |-> [sem EXCEPT !.hasErrors = TRUE], flag |-> TRUE]
             ELSE [acc |-> replaceGrade(sem, credits, grade, oldGrade), flag |-> FALSE]
        ELSE [acc |-> addCourse(sem, credits, grade), flag |-> FALSE]

\* rows.forEach from row i on: the locals at the end, the rows with their
\* error-row classes, and the locals after each row
RECURSIVE forEach(_, _, _, _)
forEach(acc, rs, trace, i) ==
    IF i > Len(rs)
    THEN [acc |-> acc, rows |-> rs, trace |-> trace]
    ELSE LET step == forEachRow(acc, rs[i])
         IN  forEach(step.acc,
                     [rs EXCEPT ![i].err = @ \/ step.flag],
                     Append(trace, step.acc),
                     i + 1)

\* Number.prototype.toFixed(2), as a count of hundredths: nearest, ties away from zero
toFixed2(x) ==
    LET m == Abs(x.n) * 100
        q == (2 * m + x.d) \div (2 * x.d)
    IN  IF x.n < 0 THEN -q ELSE q

\* Math.round: nearest integer, ties towards +Infinity
MathRound(x) == (2 * x.n + x.d) \div (2 * x.d)

\* the left of the scale indicator set by updateScaleIndicator, in percent
updateScaleIndicator(gpa) ==
    LET position == RMul(RDiv(gpa, R(4, 1)), R(100, 1))
    IN  IF RGt(position, R(100, 1)) THEN R(100, 1)
        ELSE IF RLt(position, Zero) THEN Zero
        ELSE position

\* the three animateValue calls, updateScaleIndicator and the show class:
\* the texts the result elements end on (at once under reduced motion, on
\* the last animation frame otherwise)
showResults(semesterGPA, cumulativeGPA, overallCredits) ==
    [show |-> TRUE,
     sgpa |-> <<toFixed2(semesterGPA)>>,
     cgpa |-> <<toFixed2(cumulativeGPA)>>,
     totalCredits |-> <<MathRound(overallCredits)>>,
     scale |-> <<updateScaleIndicator(cumulativeGPA)>>]

\* afterLoop with the two early returns merged into the first
afterLoop_merged(end) ==
    IF end.hasErrors \/ ~end.hasValidCourses THEN "errors"
    ELSE "complete"

\* how calculate leaves the loop: the two early returns after it, or the result
afterLoop(end) ==
    IF end.hasErrors THEN "errors"
    ELSE IF ~end.hasValidCourses THEN "no courses"
    ELSE "complete"

\* the toast of each way out of calculate
toastOf(ret) ==
    CASE ret = "invalid CGPA"     -> "Please enter a valid CGPA (0-4)"
      [] ret = "negative credits" -> "Credits cannot be negative"
      [] ret = "errors"           -> "Please fix the highlighted errors"
      [] ret = "no courses"       -> "Please add at least one course"
      [] ret = "complete"         -> "Calculation complete!"

\* calculate on the table rs, the baseline texts and the result card out:
\* the table, the card, the toast and the locals it ends with
calculate(rs, gpaText, creditsText, out) ==
    LET gpa == OrZero(parseFloat(gpaText))
        credits == OrZero(parseFloat(creditsText))
        start == startOfLoop(gpa, credits)
        loop == forEach(start, rs, <<start>>, 1)
        end == loop.acc
        semesterGPA == RDiv(end.semesterQualityPoints, end.semesterCredits)
        cumulativeGPA == IF RGt(end.overallCredits, Zero)
                         THEN RDiv(end.overallQualityPoints, end.overallCredits)
                         ELSE Zero
    IN  IF RGt(gpa, R(4, 1)) \/ RLt(gpa, Zero)
        THEN [rows |-> rs, output |-> out, toast |-> toastOf("invalid CGPA"),
              calc |-> [NoCall EXCEPT !.ret = "invalid CGPA"]]
        ELSE IF RLt(credits, Zero)
        THEN [rows |-> rs, output |-> out, toast |-> toastOf("negative credits"),
              calc |-> [NoCall EXCEPT !.ret = "negative credits"]]
        ELSE IF afterLoop(end) # "complete"
        THEN [rows |-> loop.rows, output |-> out, toast |-> toastOf(afterLoop(end)),
              calc |-> [end EXCEPT !.ret = afterLoop(end), !.trace = loop.trace]]
        ELSE [rows |-> loop.rows,
              output |-> showResults(semesterGPA, cumulativeGPA, end.overallCredits),
              toast |-> toastOf("complete"),
              calc |-> [end EXCEPT !.ret = "complete", !.trace = loop.trace,
                                   !.semesterGPA = semesterGPA,
                                   !.cumulativeGPA = cumulativeGPA]]

\* Ctrl+Enter, wherever the focus is
Calculate ==
    LET r == calculate(rows, currentGPA, currentCredits, output)
    IN  /\ rows' = r.rows
        /\ output' = r.output
        /\ toast' = r.toast
        /\ calc' = r.calc
        /\ UNCHANGED <<currentGPA, currentCredits, state, clearTimer>>

----------------------------------------------------------------------------
(* The handlers of the page *)

\* what a handler other than calculate leaves of the last call of calculate,
\* and the toast it shows
Handled(message) ==
    /\ calc' = NoCall
    /\ toast' = message

\* texts typed into the credits input of a row of the interactive table
TypedCredits == {"", "5"}
\* grades picked in the interactive table
TypedGrades == {getGradeOptions("A")}
TypedOldGrades == {getGradeOptions("C")}
\* texts typed into the Current CGPA input of the interactive table
TypedGPA == {"", "4.5"}

\* no credits input holds an uncommitted edit: the focus is free to move
NoEdit == \A j \in 1..Len(rows) : ~rows[j].edit

\* 'input' on the credits input of row i, which has the focus: the text
\* changes, error-row goes
InputCredits(i, v) ==
    /\ i \in 1..Len(rows) /\ v # rows[i].cr
    /\ \A j \in 1..Len(rows) : j # i => ~rows[j].edit
    /\ rows' = [rows EXCEPT ![i].cr = v, ![i].err = FALSE, ![i].edit = TRUE]
    /\ Handled("")
    /\ UNCHANGED <<currentGPA, currentCredits, state, clearTimer, output>>

\* the text the 'blur' listener leaves in a credits input
clampOnBlur(text) ==
    IF text # "" /\ (RLt(parseInt(text), R(1, 1)) \/ RGt(parseInt(text), R(4, 1)))
    THEN IF RLt(parseInt(text), R(1, 1)) THEN NumberToString(R(1, 1)) ELSE NumberToString(R(4, 1))
    ELSE text

\* the focus leaves the edited credits input of row i: 'change' takes
\* error-row away, then 'blur' clamps a text outside 1..4
LeaveCredits(i) ==
    /\ i \in 1..Len(rows) /\ rows[i].edit
    /\ rows' = [rows EXCEPT ![i].cr = clampOnBlur(@), ![i].err = FALSE, ![i].edit = FALSE]
    /\ Handled(IF clampOnBlur(rows[i].cr) # rows[i].cr
               THEN "Credits must be between 1 and 4" ELSE "")
    /\ UNCHANGED <<currentGPA, currentCredits, state, clearTimer, output>>

\* 'change' on the grade select of row i
SelectGrade(i, v) ==
    /\ NoEdit
    /\ i \in 1..Len(rows) /\ v # rows[i].gr
    /\ rows' = [rows EXCEPT ![i].gr = v, ![i].err = FALSE]
    /\ Handled("")
    /\ UNCHANGED <<currentGPA, currentCredits, state, clearTimer, output>>

\* 'change' on the repeat checkbox of row i: the previous-grade select is
\* enabled, or disabled and emptied
ToggleRepeat(i) ==
    /\ NoEdit
    /\ i \in 1..Len(rows)
    /\ rows' = [rows EXCEPT ![i].rp = ~@,
                            ![i].old = IF rows[i].rp THEN "" ELSE @]
    /\ Handled("")
    /\ UNCHANGED <<currentGPA, currentCredits, state, clearTimer, output>>

\* 'change' on the previous-grade select of row i, enabled while repeat is checked
SelectOld(i, v) ==
    /\ NoEdit
    /\ i \in 1..Len(rows) /\ rows[i].rp /\ v # rows[i].old
    /\ rows' = [rows EXCEPT ![i].old = v, ![i].err = FALSE]
    /\ Handled("")
    /\ UNCHANGED <<currentGPA, currentCredits, state, clearTimer, output>>

\* typing into the Current CGPA input
InputCurrentGPA(v) ==
    /\ NoEdit
    /\ v # currentGPA
    /\ currentGPA' = v
    /\ Handled("")
    /\ UNCHANGED <<rows, currentCredits, state, clearTimer, output>>

\* addRow on the table and state object t = [rows, state]
addRow(t) ==
    IF t.state.isAnimating THEN t
    ELSE [rows |-> Append(t.rows, NewRow),
          state |-> [t.state EXCEPT !.rowCount = @ + 1]]

\* the Add Row button, Ctrl+Shift+N, or Tab out of the last row
AddRow ==
    /\ NoEdit
    /\ ~state.isAnimating
    /\ Len(rows) < MaxRows
    /\ LET t == addRow([rows |-> rows, state |-> state])
       IN  rows' = t.rows /\ state' = t.state
    /\ Handled("Row added")
    /\ UNCHANGED <<currentGPA, currentCredits, clearTimer, output>>

\* rs without its i-th row
RemoveRow(rs, i) == [j \in 1..(Len(rs) - 1) |-> IF j < i THEN rs[j] ELSE rs[j + 1]]

\* the delete button of row i
DeleteRow(i) ==
    /\ NoEdit
    /\ i \in 1..Len(rows)
    /\ IF Len(rows) <= 1
       THEN /\ Handled("Cannot delete the last row")
            /\ UNCHANGED <<rows, state>>
       ELSE /\ Handled("Row deleted")
            /\ IF state.prefersReducedMotion
               THEN /\ rows' = RemoveRow(rows, i)
                    /\ state' = [state EXCEPT !.rowCount = Len(rows) - 1]
               ELSE /\ rows' = [rows EXCEPT ![i].exit = TRUE]
                    /\ UNCHANGED state
    /\ UNCHANGED <<currentGPA, currentCredits, clearTimer, output>>

\* 'animationend' on row i after deleteRow gave it the row-exit class
AnimationEnd(i) ==
    /\ i \in 1..Len(rows) /\ rows[i].exit
    /\ rows' = RemoveRow(rows, i)
    /\ state' = [state EXCEPT !.rowCount = Len(rows) - 1]
    /\ Handled("")
    /\ UNCHANGED <<currentGPA, currentCredits, clearTimer, output>>

\* the rows added by the loop of clearRows
InitialRows == 6

RECURSIVE addRows(_, _)
addRows(t, k) == IF k = 0 THEN t ELSE addRows(addRow(t), k - 1)

\* what clearRows does once the table is to be emptied, at once under reduced
\* motion and in its last timeout otherwise; isAnimating is true at this point
emptyAndRefill(st) ==
    LET t == addRows([rows |-> <<>>, state |-> [st EXCEPT !.rowCount = 0]], InitialRows)
    IN  [rows |-> t.rows, state |-> [t.state EXCEPT !.isAnimating = FALSE]]

\* clearRows on the table, the state object, the pending timeout and the
\* result card
clearRows(rs, st, timer, out) ==
    IF st.isAnimating \/ Len(rs) = 0
    THEN [rows |-> rs, state |-> st, clearTimer |-> timer, output |-> out, toast |-> ""]
    ELSE IF st.prefersReducedMotion
    THEN LET t == emptyAndRefill([st EXCEPT !.isAnimating = TRUE])
         IN  [rows |-> t.rows, state |-> t.state, clearTimer |-> timer,
              output |-> [out EXCEPT !.show = FALSE], toast |-> "All rows cleared"]
    ELSE [rows |-> rs, state |-> [st EXCEPT !.isAnimating = TRUE], clearTimer |-> TRUE,
          output |-> out, toast |-> ""]

\* the Clear button
ClearRows ==
    /\ NoEdit
    /\ ~state.isAnimating /\ Len(rows) > 0
    /\ LET r == clearRows(rows, state, clearTimer, output)
       IN  /\ rows' = r.rows /\ state' = r.state /\ clearTimer' = r.clearTimer
           /\ output' = r.output
           /\ Handled(r.toast)
    /\ UNCHANGED <<currentGPA, currentCredits>>

\* the last timeout of clearRows fires
ClearTimeout ==
    /\ clearTimer
    /\ LET t == emptyAndRefill(state)
       IN  rows' = t.rows /\ state' = t.state
    /\ clearTimer' = FALSE
    /\ output' = [output EXCEPT !.show = FALSE]
    /\ Handled("All rows cleared")
    /\ UNCHANGED <<currentGPA, currentCredits>>

\* the Reset button, confirmed
ResetAll ==
    /\ NoEdit
    /\ LET r == clearRows(rows, state, clearTimer, output)
       IN  /\ rows' = r.rows /\ state' = r.state /\ clearTimer' = r.clearTimer
           /\ output' = r.output
    /\ currentGPA' = "" /\ currentCredits' = ""
    /\ Handled("All data has been reset")

\* the prefers-reduced-motion media query changes
ReducedMotionChange ==
    /\ state' = [state EXCEPT !.prefersReducedMotion = ~@]
    /\ Handled("")
    /\ UNCHANGED <<rows, currentGPA, currentCredits, clearTimer, output>>

\* the page once init has run: loadSavedData has added one row per saved
\* course (here: a saved table of 1..MaxRows rows left blank), so init adds none
Init ==
    /\ \E k \in 1..MaxRows : rows = [i \in 1..k |-> NewRow]
    /\ currentGPA = "" /\ currentCredits = ""
    /\ \E m \in BOOLEAN :
          state = [rowCount |-> Len(rows), isAnimating |-> FALSE, prefersReducedMotion |-> m]
    /\ clearTimer = FALSE
    /\ output = NoOutput
    /\ toast = ""
    /\ calc = NoCall

Next ==
    \/ \E i \in 1..MaxRows, v \in TypedCredits : InputCredits(i, v)
    \/ \E i \in 1..MaxRows : LeaveCredits(i)
    \/ \E i \in 1..MaxRows, v \in {""} \cup TypedGrades : SelectGrade(i, v)
    \/ \E i \in 1..MaxRows : ToggleRepeat(i)
    \/ \E i \in 1..MaxRows, v \in {""} \cup TypedOldGrades : SelectOld(i, v)
    \/ \E v \in TypedGPA : InputCurrentGPA(v)
    \/ AddRow
    \/ \E i \in 1..MaxRows : DeleteRow(i)
    \/ \E i \in 1..MaxRows : AnimationEnd(i)
    \/ ClearRows
    \/ ClearTimeout
    \/ ResetAll
    \/ ReducedMotionChange
    \/ Calculate

Spec == Init /\ [][Next]_vars

----------------------------------------------------------------------------
(* The calculation on its own: calculate applied to every table and baseline
   of the bounds *)

\* the controls of a row as loadSavedData restores them from a table saved
\* while it was being filled in: any text typed into the credits input, and
\* a previous grade only where repeat is checked
RowInputs ==
    {[NewRow EXCEPT !.cr = c, !.gr = g, !.rp = r, !.old = o] :
        c \in CreditTexts, g \in GradeValues,
        <<r, o>> \in {<<FALSE, "">>} \cup ({TRUE} \X OldGradeValues)}

\* the baselines tried: empty, valid, CGPA above 4, CGPA below 0, negative credits
Baselines ==
    {<<"", "">>, <<"3.0", "30">>, <<"3.5", "60">>, <<"4.5", "30">>, <<"-1", "30">>, <<"3.0", "-1">>}

InitCalc ==
    /\ \E k \in 0..MaxEntries : rows \in [1..k -> RowInputs]
    /\ \E b \in Baselines : currentGPA = b[1] /\ currentCredits = b[2]
    /\ state = [rowCount |-> Len(rows), isAnimating |-> FALSE, prefersReducedMotion |-> FALSE]
    /\ clearTimer = FALSE
    /\ output = NoOutput
    /\ toast = ""
    /\ calc = NoCall

NextCalc == Calculate

SpecCalc == InitCalc /\ [][NextCalc]_vars

----------------------------------------------------------------------------
(* Vocabulary of the properties *)

\* the baseline as calculate reads it
priorGPA == OrZero(parseFloat(currentGPA))
priorCredits == OrZero(parseFloat(currentCredits))
BaselineValid ==
    /\ RLe(Zero, priorGPA) /\ RLe(priorGPA, R(4, 1))
    /\ RLe(Zero, priorCredits)

creditsOf(row) == parseFloat(row.cr)
pointsOf(row) == parseFloat(row.gr)
oldPointsOf(row) == parseFloat(row.old)

EntryEmpty(row) == row.cr = "" /\ row.gr = ""
EntryFaulty(row) ==
    /\ ~EntryEmpty(row)
    /\ \/ row.cr = "" \/ row.gr = ""
       \/ ~RGt(creditsOf(row), Zero) \/ RGt(creditsOf(row), R(4, 1))
       \/ row.rp /\ row.old = ""
EntryValid(row) == ~EntryEmpty(row) /\ ~EntryFaulty(row)

Entries == 1..Len(rows)

\* the input is one calculate accepts
InputValid ==
    /\ BaselineValid
    /\ \A i \in Entries : ~EntryFaulty(rows[i])
    /\ \E i \in Entries : EntryValid(rows[i])

\* calculate has just returned
Returned == calc.ret # "none"
\* ... after its loop over the rows
LoopRan == calc.ret \in {"errors", "no courses", "complete"}

RECURSIVE RSum(_)
RSum(seq) == IF seq = <<>> THEN Zero ELSE RAdd(seq[1], RSum(Tail(seq)))

\* sum of credits x gradePoints, and of credits, over the valid entries
SumQualityPoints ==
    RSum([i \in Entries |-> IF EntryValid(rows[i])
                            THEN RMul(creditsOf(rows[i]), pointsOf(rows[i])) ELSE Zero])
SumCredits ==
    RSum([i \in Entries |-> IF EntryValid(rows[i]) THEN creditsOf(rows[i]) ELSE Zero])
\* sum of credits over the valid entries that are no repeat
SumNewCredits ==
    RSum([i \in Entries |-> IF EntryValid(rows[i]) /\ ~rows[i].rp
                            THEN creditsOf(rows[i]) ELSE Zero])

----------------------------------------------------------------------------
(* Properties of the calculation, checked under SpecCalc *)

\* C1: with a valid baseline and valid entries none of which is a repeat,
\* calculate completes, cumulativeGPA is (priorGPA x priorCredits + sum of
\* credits x gradePoints) / (priorCredits + sum of credits), and the total
\* credits are priorCredits + sum of credits.
C1_DirectArithmetic ==
    (Returned /\ InputValid /\ \A i \in Entries : ~rows[i].rp) =>
        LET qp == RAdd(RMul(priorGPA, priorCredits), SumQualityPoints)
            cr == RAdd(priorCredits, SumCredits)
        IN  /\ calc.ret = "complete"
            /\ calc.cumulativeGPA = RDiv(qp, cr)
            /\ calc.overallCredits = cr
            /\ output.cgpa = <<toFixed2(RDiv(qp, cr))>>
            /\ output.totalCredits = <<MathRound(cr)>>

C1_Witness ==
    /\ Returned /\ InputValid
    /\ Len(rows) = 2
    /\ \A i \in Entries : EntryValid(rows[i]) /\ ~rows[i].rp
    /\ RGt(priorCredits, Zero)
    /\ rows[1].gr # rows[2].gr

\* C2: a valid repeat entry changes overallQualityPoints by exactly
\* credits x (gradePoints(grade) - gradePoints(previousGrade)); baseline 3.0
\* with 30 credits and one repeat entry of 3 credits, grade 4.0, previous
\* grade 2.0 gives overallQualityPoints 96, overallCredits 30, cumulativeGPA 3.20.
C2_RepeatDelta ==
    /\ LoopRan =>
         \A i \in Entries :
            (EntryValid(rows[i]) /\ rows[i].rp) =>
                RSub(calc.trace[i + 1].overallQualityPoints, calc.trace[i].overallQualityPoints)
                  = RMul(creditsOf(rows[i]), RSub(pointsOf(rows[i]), oldPointsOf(rows[i])))
    /\ ( /\ Returned /\ currentGPA = "3.0" /\ currentCredits = "30"
         /\ rows = <<[NewRow EXCEPT !.cr = "3", !.gr = "4", !.rp = TRUE, !.old = "2"]>> ) =>
            /\ calc.overallQualityPoints = R(96, 1)
            /\ calc.overallCredits = R(30, 1)
            /\ calc.cumulativeGPA = R(320, 100)
            /\ output.cgpa = <<320>>

C2_Witness ==
    /\ Returned /\ currentGPA = "3.0" /\ currentCredits = "30"
    /\ rows = <<[NewRow EXCEPT !.cr = "3", !.gr = "4", !.rp = TRUE, !.old = "2"]>>
    /\ calc.ret = "complete"

\* C3: the credits of repeated courses are never added to overallCredits: for
\* a valid input the total credits are priorCredits plus the credits of the
\* valid entries that are no repeat, wherever the repeat entries sit.
C3_RepeatCreditsNotAdded ==
    (Returned /\ InputValid) =>
        /\ calc.ret = "complete"
        /\ calc.overallCredits = RAdd(priorCredits, SumNewCredits)
        /\ output.totalCredits = <<MathRound(RAdd(priorCredits, SumNewCredits))>>

C3_Witness ==
    /\ Returned /\ InputValid
    /\ Len(rows) = 2
    /\ EntryValid(rows[1]) /\ rows[1].rp
    /\ EntryValid(rows[2]) /\ ~rows[2].rp
    /\ calc.overallCredits = RAdd(priorCredits, creditsOf(rows[2]))

\* C4: for a valid input semesterGPA is (sum of credits x gradePoints) / (sum
\* of credits) over all valid entries, repeat or not: a value of the credits
\* and grades alone, not of the baseline nor of any previous grade.
C4_SemesterGPA ==
    (Returned /\ InputValid) =>
        /\ calc.ret = "complete"
        /\ calc.semesterGPA = RDiv(SumQualityPoints, SumCredits)
        /\ output.sgpa = <<toFixed2(RDiv(SumQualityPoints, SumCredits))>>

C4_Witness ==
    /\ Returned /\ InputValid
    /\ Len(rows) = 2
    /\ EntryValid(rows[1]) /\ rows[1].rp
    /\ EntryValid(rows[2]) /\ ~rows[2].rp
    /\ rows[1].gr # rows[2].gr /\ rows[1].cr # rows[2].cr
    /\ RGt(priorCredits, Zero)

C6_FallbackToBaselineGPA ==
    (Returned /\ BaselineValid /\ \A i \in Entries : EntryEmpty(rows[i])) =>
        /\ toast = "Please add at least one course"
        /\ output.sgpa = <<>>
        /\ calc.cumulativeGPA = priorGPA

\* C6, amended: when every entry is skipped or there is none, calculate shows
\* "Please add at least one course" and returns before it computes anything:
\* no semesterGPA, and no cumulativeGPA or total credits either; the result
\* card stays as it was, and the overall sums still hold the baseline alone.
C6_NoCoursesNoResult ==
    (Returned /\ BaselineValid /\ \A i \in Entries : EntryEmpty(rows[i])) =>
        /\ calc.ret = "no courses"
        /\ toast = "Please add at least one course"
        /\ output = NoOutput
        /\ isNaN(calc.semesterGPA) /\ isNaN(calc.cumulativeGPA)
        /\ calc.semesterCredits = Zero
        /\ calc.overallQualityPoints = RMul(priorGPA, priorCredits)
        /\ calc.overallCredits = priorCredits

\* baseline 3.5 with 60 credits over a table of skipped rows only
C6_Witness ==
    /\ Returned /\ currentGPA = "3.5" /\ currentCredits = "60"
    /\ Len(rows) = 2
    /\ \A i \in Entries : EntryEmpty(rows[i])
    /\ rows[1].rp /\ ~rows[2].rp
    /\ calc.ret = "no courses"

\* the bound the page configures for a course's credits: min 1, max 4, step 1
CreditsInConfiguredBound(credits) ==
    /\ RLe(R(1, 1), credits) /\ RLe(credits, R(4, 1))
    /\ credits.d = 1

\* C7: calculate marks every entry whose credits are non-numeric, non-positive
\* or outside the configured bound (min 1, max 4, step 1), and no such entry
\* contributes to a computed result.
C7_CreditsBoundEnforced ==
    LoopRan =>
        \A i \in Entries :
            (rows[i].cr # "" /\ rows[i].gr # "" /\ ~CreditsInConfiguredBound(creditsOf(rows[i]))) =>
                /\ rows[i].err
                /\ calc.ret # "complete"

----------------------------------------------------------------------------
(* Properties of the page, checked under Spec *)

\* C8: right after a call of calculate that went through the rows, the rows
\* carrying error-row are exactly the entries that break a validation rule
\* in the table as it is; when the calculation completes, no row is flagged.
C8_FlagsAreTheFaults ==
    LoopRan => \A i \in Entries : rows[i].err <=> EntryFaulty(rows[i])

----------------------------------------------------------------------------
(* Properties of the calculation, checked under SpecCalc *)

\* C9: an entry with credits and grade both empty is skipped: it raises no
\* fault and leaves every sum as it was, whatever its repeat checkbox and
\* previous grade hold, and calculate ends as it does on the table without
\* these entries.
C9_EmptyEntriesSkipped ==
    Returned =>
        LET kept == SelectSeq(rows, LAMBDA row : ~EntryEmpty(row))
            cleared == [i \in 1..Len(kept) |-> [kept[i] EXCEPT !.err = FALSE]]
            alone == calculate(cleared, currentGPA, currentCredits, NoOutput)
        IN  /\ \A i \in Entries :
                EntryEmpty(rows[i]) =>
                    /\ ~rows[i].err
                    /\ LoopRan => calc.trace[i + 1] = calc.trace[i]
            /\ alone.rows = kept
            /\ alone.output = output
            /\ alone.toast = toast
            /\ [alone.calc EXCEPT !.trace = <<>>] = [calc EXCEPT !.trace = <<>>]

\* a skipped entry with repeat checked and a previous grade, between two valid ones
C9_Witness ==
    /\ Returned
    /\ Len(rows) >= 2
    /\ \E i \in Entries : EntryEmpty(rows[i]) /\ rows[i].rp /\ rows[i].old # ""
    /\ \E i \in Entries : EntryValid(rows[i])
    /\ calc.ret = "complete"

----------------------------------------------------------------------------
(* Properties of the page, checked under Spec *)

\* clearRows has just run to its end: the handler that ran last showed its toast
ClearRowsCompleted == toast = "All rows cleared"

\* C10: once clearRows has run to completion (on return under reduced motion,
\* in its last timeout otherwise) the table holds exactly 6 fresh empty rows,
\* state.rowCount is 6 and state.isAnimating is false.
C10_ClearLeavesSixRows ==
    ClearRowsCompleted =>
        /\ rows = [i \in 1..InitialRows |-> NewRow]
        /\ state.rowCount = InitialRows
        /\ ~state.isAnimating

\* a click on the delete button of some row, or the end of the exit animation
\* that an earlier click started
DeleteRowStep ==
    \E i \in 1..MaxRows : DeleteRow(i) \/ AnimationEnd(i)

\* C11: deleteRow never removes the last row: from a table with at least one
\* row, no click on a delete button and no animationend callback of an earlier
\* deletion, however they interleave, leaves the table without a row.
C11_DeleteKeepsARow ==
    [][(Len(rows) >= 1 /\ DeleteRowStep) => Len(rows') >= 1]_vars

----------------------------------------------------------------------------
(* Properties of the calculation, checked under SpecCalc *)

\* lies in [0, 4]
InScale(gpa) ==
    /\ ~isNaN(gpa)
    /\ RLe(Zero, gpa) /\ RLe(gpa, R(4, 1))

\* C12: for every input that calculate accepts (valid baseline, every
\* non-empty entry valid, at least one valid entry) the cumulativeGPA and the
\* semesterGPA it produces lie in [0, 4], repeat entries included.
C12_ResultsInScale ==
    (Returned /\ InputValid) =>
        /\ calc.ret = "complete"
        /\ InScale(calc.cumulativeGPA)
        /\ InScale(calc.semesterGPA)

====
